---- MODULE Spec2Model ----
(***************************************************************************)
(* Smart-Home-IoT-Simulator: the device model (devices/smart_devices.py),  *)
(* the rule engine (utils/automation.py), the reference configuration      *)
(* (main.py) and the background simulation thread with the presentation    *)
(* commands that race with it (ui/dashboard.py).                           *)
(*                                                                         *)
(* Units.  Python mixes int and float; the model keeps integers:           *)
(*   - temperatures are in quarter degrees (Deg(20) = 80, the 0.5 step of  *)
(*     update_current_temp is HalfDeg = 2);                                *)
(*   - SmartWindow.light_level is in hundredths of a percent, so that the  *)
(*     true division by 100 of calculate_light_level loses nothing         *)
(*     (the constructor's 50 is 5000).                                     *)
(* None is <<>> and a time stamp t is <<t>>.                               *)
(***************************************************************************)
EXTENDS Integers, Sequences, FiniteSets, TLC

VARIABLES
    devices,         \* AutomationSystem.devices: the registry, in insertion order
    rules,           \* AutomationSystem.rules: [name, enabled, last_triggered], in insertion order
    enabled,         \* AutomationSystem.enabled
    last_execution,  \* AutomationSystem.last_execution
    now,             \* time.time()
    hour,            \* time.localtime().tm_hour
    pc,              \* the simulation thread's position in Dashboard.simulation_loop
    ri,              \* simulation thread: index of the rule execute_rules is at
    di,              \* simulation thread: index of the device the thermostat loop is at
    timers,          \* pending after(5000, detect_motion(False)) callbacks, per device index
    cmds,            \* number of presentation commands handled so far
    pass,            \* history: the tick in progress, its execute_rules pass and thermostat loop
    call             \* history: the last operation that ran, its inputs and its result

vars == <<devices, rules, enabled, last_execution, now, hour, pc, ri, di, timers, cmds, pass, call>>

None == <<>>
Some(t) == <<t>>

Deg(n) == 4 * n
HalfDeg == Deg(1) \div 2

Max(a, b) == IF a >= b THEN a ELSE b
Min(a, b) == IF a <= b THEN a ELSE b
Abs(x) == IF x < 0 THEN -x ELSE x
\* v constrained to the closed range [lo, hi]
Clamp(v, lo, hi) == IF v < lo THEN lo ELSE IF v > hi THEN hi ELSE v

(***************************************************************************)
(* devices/smart_devices.py                                                *)
(***************************************************************************)

\* SmartLight.update_light_color: min() over the dict keys in insertion order,
\* so of two keys equally near the first one wins.
LightColorKeys == <<3000, 4000, 5000, 6000>>

update_light_color(d) ==
    LET dist(i) == Abs(LightColorKeys[i] - d.color_temp)
        best == CHOOSE i \in 1..Len(LightColorKeys) :
                    \A j \in 1..Len(LightColorKeys) :
                        dist(i) < dist(j) \/ (dist(i) = dist(j) /\ i <= j)
    IN  [d EXCEPT !.color = LightColorKeys[best]]

SmartLight(id, room, color_temp) ==
    update_light_color(
        [device_id |-> id, device_type |-> "light", room |-> room, status |-> FALSE,
         color |-> 0, brightness |-> 0, color_temp |-> color_temp])

\* Thermostat.update_temp_color
update_temp_color(d) ==
    [d EXCEPT !.color =
        IF d.temperature < Deg(16) THEN "cold"
        ELSE IF d.temperature < Deg(19) THEN "cool"
        ELSE IF d.temperature < Deg(23) THEN "neutral"
        ELSE IF d.temperature < Deg(26) THEN "warm"
        ELSE "hot"]

Thermostat(id, room) ==
    update_temp_color(
        [device_id |-> id, device_type |-> "thermostat", room |-> room, status |-> FALSE,
         color |-> "gray", temperature |-> Deg(20), target_temp |-> Deg(20),
         mode |-> "heat", humidity |-> 50])

SecurityCamera(id, room) ==
    [device_id |-> id, device_type |-> "camera", room |-> room, status |-> FALSE,
     color |-> "gray", motion_detected |-> FALSE, recording |-> FALSE, battery_level |-> 100]

SmartDoor(id, room) ==
    [device_id |-> id, device_type |-> "door", room |-> room, status |-> FALSE,
     color |-> "gray", locked |-> TRUE, door_open |-> FALSE]

SmartWindow(id, room) ==
    [device_id |-> id, device_type |-> "window", room |-> room, status |-> FALSE,
     color |-> "gray", open_percentage |-> 0, blinds_percentage |-> 0, light_level |-> 50 * 100]

SmartFan(id, room) ==
    [device_id |-> id, device_type |-> "fan", room |-> room, status |-> FALSE,
     color |-> "gray", speed |-> 0, oscillating |-> FALSE, timer |-> 0]

IsLight(d) == d.device_type = "light"
IsThermostat(d) == d.device_type = "thermostat"
IsCamera(d) == d.device_type = "camera"
IsDoor(d) == d.device_type = "door"
IsWindow(d) == d.device_type = "window"
IsFan(d) == d.device_type = "fan"

\* SmartDevice.toggle_status
toggle_status(d) == [d EXCEPT !.status = ~d.status]

\* SmartLight.set_brightness: the value is stored as given; status follows it
\* for > 0 and for == 0, and is left alone for a negative value.
set_brightness(d, brightness) ==
    LET d1 == [d EXCEPT !.brightness = brightness]
    IN  IF d1.brightness > 0 THEN [d1 EXCEPT !.status = TRUE]
        ELSE IF d1.brightness = 0 THEN [d1 EXCEPT !.status = FALSE]
        ELSE d1

\* SmartLight.set_color_temp
set_color_temp(d, temp) ==
    update_light_color([d EXCEPT !.color_temp = Max(3000, Min(6000, temp))])

\* set_temperature that snaps the current temperature to the target at once
set_temperature_snap(d, temperature) ==
    update_temp_color([d EXCEPT !.target_temp = temperature, !.temperature = temperature,
                                !.status = TRUE])

\* Thermostat.set_temperature
set_temperature(d, temperature) ==
    [d EXCEPT !.target_temp = temperature, !.status = TRUE]

\* Thermostat.set_mode
set_mode(d, mode) ==
    IF mode \in {"heat", "cool", "auto"} THEN [d EXCEPT !.mode = mode] ELSE d

\* update_current_temp that leaves the colour band as it was
update_current_temp_stale_color(d) ==
    IF d.temperature < d.target_temp THEN [d EXCEPT !.temperature = @ + HalfDeg]
    ELSE IF d.temperature > d.target_temp THEN [d EXCEPT !.temperature = @ - HalfDeg]
    ELSE d

\* Thermostat.update_current_temp
update_current_temp(d) ==
    update_temp_color(
        IF d.temperature < d.target_temp THEN [d EXCEPT !.temperature = @ + HalfDeg]
        ELSE IF d.temperature > d.target_temp THEN [d EXCEPT !.temperature = @ - HalfDeg]
        ELSE d)

\* SecurityCamera.detect_motion with force_state given
detect_motion(d, force_state) == [d EXCEPT !.motion_detected = force_state]

\* SecurityCamera.start_recording / stop_recording
start_recording(d) == IF d.status THEN [d EXCEPT !.recording = TRUE] ELSE d
stop_recording(d) == [d EXCEPT !.recording = FALSE]

\* SmartDoor.toggle_lock
toggle_lock(d) == [d EXCEPT !.locked = ~d.locked]

\* open_door that forgets the lock
open_door_unlocked(d) == [d EXCEPT !.door_open = TRUE]

\* SmartDoor.open_door: the device after the call, and the value returned
open_door(d) == IF ~d.locked THEN [d EXCEPT !.door_open = TRUE] ELSE d
open_door_ret(d) == ~d.locked

\* SmartDoor.close_door (returns True)
close_door(d) == [d EXCEPT !.door_open = FALSE]
close_door_ret(d) == TRUE

\* SmartWindow.calculate_light_level, in hundredths of a percent
calculate_light_level(d) ==
    [d EXCEPT !.light_level = d.open_percentage * (100 - d.blinds_percentage)]

\* set_open_percentage that stores the value as given
set_open_percentage_unclamped(d, percentage) ==
    [d EXCEPT !.open_percentage = percentage, !.status = (percentage > 0)]

\* SmartWindow.set_open_percentage: light_level is not recomputed here
set_open_percentage(d, percentage) ==
    LET d1 == [d EXCEPT !.open_percentage = Max(0, Min(100, percentage))]
    IN  [d1 EXCEPT !.status = (d1.open_percentage > 0)]

\* SmartWindow.set_blinds_percentage
set_blinds_percentage(d, percentage) ==
    calculate_light_level([d EXCEPT !.blinds_percentage = Max(0, Min(100, percentage))])

\* set_speed that stores the value as given
set_speed_unclamped(d, speed) == [d EXCEPT !.speed = speed, !.status = (speed > 0)]

\* SmartFan.set_speed
set_speed(d, speed) ==
    LET d1 == [d EXCEPT !.speed = Max(0, Min(3, speed))]
    IN  [d1 EXCEPT !.status = (d1.speed > 0)]

\* SmartFan.toggle_oscillation
toggle_oscillation(d) == IF d.status THEN [d EXCEPT !.oscillating = ~d.oscillating] ELSE d

\* SmartFan.set_timer
set_timer(d, minutes) == [d EXCEPT !.timer = Max(0, minutes)]

\* get_details returns f"{device_id} ({room}): <text>": the line is kept as its
\* head (device_id, room), the text after ": " with its fields left as
\* placeholders, and the values formatted into the placeholders, in order.
Details(d, text, args) ==
    [device_id |-> d.device_id, room |-> d.room, text |-> text, args |-> args]

\* get_details of a light that forgets the OFF check
SmartLight_get_details_no_off_check(d) ==
    Details(d, "{brightness}% - {color_temp}K",
            <<ToString(d.brightness), ToString(d.color_temp)>>)

\* SmartLight.get_details
SmartLight_get_details(d) ==
    IF ~d.status THEN Details(d, "OFF", <<>>)
    ELSE Details(d, "{brightness}% - {color_temp}K",
                 <<ToString(d.brightness), ToString(d.color_temp)>>)

\* str.capitalize() on the modes set_mode lets through
capitalize(mode) ==
    CASE mode = "heat" -> "Heat"
      [] mode = "cool" -> "Cool"
      [] mode = "auto" -> "Auto"

\* Thermostat.get_details (the temperature in quarter degrees)
Thermostat_get_details(d) ==
    IF ~d.status THEN Details(d, "OFF", <<>>)
    ELSE Details(d, "{temperature}C - Mode: {mode}",
                 <<ToString(d.temperature), capitalize(d.mode)>>)

\* SecurityCamera.get_details
SecurityCamera_get_details(d) ==
    IF ~d.status THEN Details(d, "OFF", <<>>)
    ELSE Details(d, "{motion_status} - {recording_status} - Battery: {battery_level}%",
                 << IF d.motion_detected THEN "Motion Detected!" ELSE "No Motion",
                    IF d.recording THEN "Recording" ELSE "Standby",
                    ToString(d.battery_level) >>)

\* SmartDoor.get_details
SmartDoor_get_details(d) ==
    IF ~d.status THEN Details(d, "OFF", <<>>)
    ELSE Details(d, "{door_status} - {lock_status}",
                 << IF d.door_open THEN "Open" ELSE "Closed",
                    IF d.locked THEN "Locked" ELSE "Unlocked" >>)

\* SmartWindow.get_details (the light level in hundredths of a percent)
SmartWindow_get_details(d) ==
    IF ~d.status THEN Details(d, "CLOSED", <<>>)
    ELSE Details(d, "{open_percentage}% Open - Blinds: {blinds_percentage}% - Light: {light_level}%",
                 <<ToString(d.open_percentage), ToString(d.blinds_percentage),
                   ToString(d.light_level)>>)

\* SmartFan.get_details; speed_labels has the keys 1, 2 and 3
SmartFan_get_details(d) ==
    IF ~d.status \/ d.speed = 0 THEN Details(d, "OFF", <<>>)
    ELSE Details(d, "{speed_label} - {osc_status} - {timer_status}",
                 << CASE d.speed = 1 -> "Low" [] d.speed = 2 -> "Medium" [] d.speed = 3 -> "High",
                    IF d.oscillating THEN "Oscillating" ELSE "Fixed",
                    IF d.timer > 0 THEN "Timer: " \o ToString(d.timer) \o "min" ELSE "No Timer" >>)

\* device.get_details(), dispatched on the device's class
get_details(d) ==
    CASE IsLight(d) -> SmartLight_get_details(d)
      [] IsThermostat(d) -> Thermostat_get_details(d)
      [] IsCamera(d) -> SecurityCamera_get_details(d)
      [] IsDoor(d) -> SmartDoor_get_details(d)
      [] IsWindow(d) -> SmartWindow_get_details(d)
      [] IsFan(d) -> SmartFan_get_details(d)

(***************************************************************************)
(* utils/automation.py: the six rule factories                             *)
(***************************************************************************)

\* main.py: create_temperature_control_rule(22), create_morning_routine_rule(7),
\* create_evening_routine_rule(19)
TargetTemp == 22
MorningHour == 7
EveningHour == 19

\* create_motion_lighting_rule
motion_lighting_condition(devs) ==
    LET p(d) == IsCamera(d) /\ d.status /\ d.motion_detected
    IN  \E i \in 1..Len(devs) : p(devs[i])

\* the action written as a filter: it hands back the lights alone
motion_lighting_action_lights_alone(devs) ==
    LET lit(d) == set_brightness([d EXCEPT !.status = TRUE], 100)
        lights == SelectSeq(devs, IsLight)
    IN  [i \in 1..Len(lights) |-> lit(lights[i])]

\* the action that raises only the lights that are already on
motion_lighting_action_lit_only(devs) ==
    LET f(d) == IF IsLight(d) /\ d.status THEN set_brightness(d, 100) ELSE d
    IN  [i \in 1..Len(devs) |-> f(devs[i])]

motion_lighting_action(devs) ==
    LET f(d) == IF IsLight(d) THEN set_brightness([d EXCEPT !.status = TRUE], 100) ELSE d
    IN  [i \in 1..Len(devs) |-> f(devs[i])]

\* the condition that lets a thermostat stray 2 degrees before it holds
temperature_control_condition_wide(devs) ==
    LET p(d) == IsThermostat(d) /\ d.status /\ Abs(d.temperature - Deg(TargetTemp)) > Deg(2)
    IN  \E i \in 1..Len(devs) : p(devs[i])

\* create_temperature_control_rule(target_temp)
temperature_control_condition(devs) ==
    LET p(d) == IsThermostat(d) /\ d.status /\ Abs(d.temperature - Deg(TargetTemp)) > Deg(1)
    IN  \E i \in 1..Len(devs) : p(devs[i])

\* the action that forgets to look at the on flag of a thermostat
temperature_control_action_all(devs) ==
    LET f(d) == IF IsThermostat(d) THEN set_temperature(d, Deg(TargetTemp)) ELSE d
    IN  [i \in 1..Len(devs) |-> f(devs[i])]

temperature_control_action(devs) ==
    LET f(d) == IF IsThermostat(d) /\ d.status THEN set_temperature(d, Deg(TargetTemp)) ELSE d
    IN  [i \in 1..Len(devs) |-> f(devs[i])]

\* the Auto Lock condition without its test for an empty camera list
security_condition_vacuous(devs) ==
    LET cameras == {i \in 1..Len(devs) : IsCamera(devs[i]) /\ devs[i].status}
    IN  \A i \in cameras : ~devs[i].motion_detected

\* create_security_rule ("Auto Lock")
security_condition(devs) ==
    LET cameras == {i \in 1..Len(devs) : IsCamera(devs[i]) /\ devs[i].status}
    IN  IF cameras = {} THEN FALSE
        ELSE \A i \in cameras : ~devs[i].motion_detected

\* the action that skips a door standing open
security_action_closed_only(devs) ==
    LET f(d) == IF IsDoor(d) /\ d.status /\ ~d.door_open THEN [d EXCEPT !.locked = TRUE] ELSE d
    IN  [i \in 1..Len(devs) |-> f(devs[i])]

security_action(devs) ==
    LET f(d) == IF IsDoor(d) /\ d.status THEN [d EXCEPT !.locked = TRUE] ELSE d
    IN  [i \in 1..Len(devs) |-> f(devs[i])]

\* create_energy_saving_rule
energy_saving_condition(devs) ==
    LET cameras == {i \in 1..Len(devs) : IsCamera(devs[i]) /\ devs[i].status}
        no_motion == \A i \in cameras : ~devs[i].motion_detected
    IN  IF cameras = {} THEN FALSE ELSE no_motion

\* the action that forgets to look at the on flag of a light
energy_saving_action_all_lights(devs) ==
    LET f(d) == IF IsLight(d) THEN set_brightness(d, 0)
                ELSE IF IsFan(d) /\ d.status THEN set_speed(d, 0)
                ELSE d
    IN  [i \in 1..Len(devs) |-> f(devs[i])]

energy_saving_action(devs) ==
    LET f(d) == IF IsLight(d) /\ d.status THEN set_brightness(d, 0)
                ELSE IF IsFan(d) /\ d.status THEN set_speed(d, 0)
                ELSE d
    IN  [i \in 1..Len(devs) |-> f(devs[i])]

\* create_morning_routine_rule(morning_hour)
morning_routine_condition(hr) == hr = MorningHour

\* the action that sets only the lights that are already on
morning_routine_action_lit_only(devs) ==
    LET f(d) == IF IsLight(d)
                    THEN (IF d.status THEN set_color_temp(set_brightness(d, 70), 5000) ELSE d)
                ELSE IF IsThermostat(d)
                    THEN set_temperature([d EXCEPT !.status = TRUE], Deg(22))
                ELSE IF IsWindow(d) THEN set_blinds_percentage(d, 30)
                ELSE d
    IN  [i \in 1..Len(devs) |-> f(devs[i])]

\* the action that writes the blinds percentage without set_blinds_percentage
morning_routine_action_stale_light(devs) ==
    LET f(d) == IF IsLight(d)
                    THEN set_color_temp(set_brightness([d EXCEPT !.status = TRUE], 70), 5000)
                ELSE IF IsThermostat(d)
                    THEN set_temperature([d EXCEPT !.status = TRUE], Deg(22))
                ELSE IF IsWindow(d) THEN [d EXCEPT !.blinds_percentage = 30]
                ELSE d
    IN  [i \in 1..Len(devs) |-> f(devs[i])]

morning_routine_action(devs) ==
    LET f(d) == IF IsLight(d)
                    THEN set_color_temp(set_brightness([d EXCEPT !.status = TRUE], 70), 5000)
                ELSE IF IsThermostat(d)
                    THEN set_temperature([d EXCEPT !.status = TRUE], Deg(22))
                ELSE IF IsWindow(d) THEN set_blinds_percentage(d, 30)
                ELSE d
    IN  [i \in 1..Len(devs) |-> f(devs[i])]

\* create_evening_routine_rule(evening_hour)
evening_routine_condition(hr) == hr = EveningHour

\* the action that lowers the blinds by a further half each time it runs
evening_routine_action_lower_blinds(devs) ==
    LET f(d) == IF IsLight(d)
                    THEN set_color_temp(set_brightness([d EXCEPT !.status = TRUE], 50), 3000)
                ELSE IF IsThermostat(d)
                    THEN set_temperature([d EXCEPT !.status = TRUE], Deg(21))
                ELSE IF IsWindow(d) THEN set_blinds_percentage(d, d.blinds_percentage + 50)
                ELSE d
    IN  [i \in 1..Len(devs) |-> f(devs[i])]

evening_routine_action(devs) ==
    LET f(d) == IF IsLight(d)
                    THEN set_color_temp(set_brightness([d EXCEPT !.status = TRUE], 50), 3000)
                ELSE IF IsThermostat(d)
                    THEN set_temperature([d EXCEPT !.status = TRUE], Deg(21))
                ELSE IF IsWindow(d) THEN set_blinds_percentage(d, 100)
                ELSE d
    IN  [i \in 1..Len(devs) |-> f(devs[i])]

\* rule.condition(devices) and rule.action(devices): the closures a rule was built with
Condition(rule, devs, hr) ==
    CASE rule.name = "Motion Lighting" -> motion_lighting_condition(devs)
      [] rule.name = "Temperature Control" -> temperature_control_condition(devs)
      [] rule.name = "Auto Lock" -> security_condition(devs)
      [] rule.name = "Energy Saving" -> energy_saving_condition(devs)
      [] rule.name = "Morning Routine" -> morning_routine_condition(hr)
      [] rule.name = "Evening Routine" -> evening_routine_condition(hr)

Action(rule, devs) ==
    CASE rule.name = "Motion Lighting" -> motion_lighting_action(devs)
      [] rule.name = "Temperature Control" -> temperature_control_action(devs)
      [] rule.name = "Auto Lock" -> security_action(devs)
      [] rule.name = "Energy Saving" -> energy_saving_action(devs)
      [] rule.name = "Morning Routine" -> morning_routine_action(devs)
      [] rule.name = "Evening Routine" -> evening_routine_action(devs)

\* AutomationRule.__init__
AutomationRule(name) == [name |-> name, enabled |-> TRUE, last_triggered |-> None]

(***************************************************************************)
(* utils/automation.py: AutomationRule and AutomationSystem                *)
(***************************************************************************)

\* apply that forgets the rule's own enabled flag
apply_unguarded(rule, devs, hr, t) ==
    IF Condition(rule, devs, hr)
        THEN [ret |-> TRUE, devices |-> Action(rule, devs),
              rule |-> [rule EXCEPT !.last_triggered = Some(t)],
              evaluated |-> TRUE, acted |-> 1]
    ELSE [ret |-> FALSE, devices |-> devs, rule |-> rule,
          evaluated |-> TRUE, acted |-> 0]

\* apply that stamps last_triggered whether or not the rule fired
apply_always_stamps(rule, devs, hr, t) ==
    IF ~rule.enabled
        THEN [ret |-> FALSE, devices |-> devs, rule |-> rule,
              evaluated |-> FALSE, acted |-> 0]
    ELSE IF Condition(rule, devs, hr)
        THEN [ret |-> TRUE, devices |-> Action(rule, devs),
              rule |-> [rule EXCEPT !.last_triggered = Some(t)],
              evaluated |-> TRUE, acted |-> 1]
    ELSE [ret |-> FALSE, devices |-> devs,
          rule |-> [rule EXCEPT !.last_triggered = Some(t)],
          evaluated |-> TRUE, acted |-> 0]

\* AutomationRule.apply at time t: the value returned, the registry and the rule
\* afterwards, and whether the condition was evaluated and the action run.
apply(rule, devs, hr, t) ==
    IF ~rule.enabled
        THEN [ret |-> FALSE, devices |-> devs, rule |-> rule,
              evaluated |-> FALSE, acted |-> 0]
    ELSE IF Condition(rule, devs, hr)
        THEN [ret |-> TRUE, devices |-> Action(rule, devs),
              rule |-> [rule EXCEPT !.last_triggered = Some(t)],
              evaluated |-> TRUE, acted |-> 1]
    ELSE [ret |-> FALSE, devices |-> devs, rule |-> rule,
          evaluated |-> TRUE, acted |-> 0]

\* AutomationRule.toggle
rule_toggle(rule) == [rule EXCEPT !.enabled = ~rule.enabled]

\* An iteration that evaluates the condition on the registry the pass started
\* with (a snapshot) and runs the action on the current one
execute_rules_step_snapshot(st, i, hr, t) ==
    LET start == IF st.log = <<>> THEN st.devices ELSE st.log[1].seen
        fires == st.rules[i].enabled /\ Condition(st.rules[i], start, hr)
    IN  [devices |-> IF fires THEN Action(st.rules[i], st.devices) ELSE st.devices,
         rules |-> IF fires THEN [st.rules EXCEPT ![i].last_triggered = Some(t)]
                   ELSE st.rules,
         log |-> Append(st.log, [rule |-> i, applied |-> st.rules[i].enabled,
                                 evaluated |-> st.rules[i].enabled, fired |-> fires,
                                 seen |-> st.devices])]

\* One iteration of the for loop of execute_rules, on the pass state
\* st = [devices, rules, log]: the rule is applied only if it is enabled.
\* The log entry keeps the registry the iteration found.
execute_rules_step(st, i, hr, t) ==
    IF st.rules[i].enabled
        THEN LET r == apply(st.rules[i], st.devices, hr, t)
             IN  [devices |-> r.devices,
                  rules |-> [st.rules EXCEPT ![i] = r.rule],
                  log |-> Append(st.log, [rule |-> i, applied |-> TRUE,
                                          evaluated |-> r.evaluated, fired |-> r.ret,
                                          seen |-> st.devices])]
    ELSE [st EXCEPT !.log = Append(@, [rule |-> i, applied |-> FALSE,
                                       evaluated |-> FALSE, fired |-> FALSE,
                                       seen |-> st.devices])]

RECURSIVE execute_rules_loop(_, _, _, _)
execute_rules_loop(st, i, hr, t) ==
    IF i > Len(st.rules) THEN st
    ELSE execute_rules_loop(execute_rules_step(st, i, hr, t), i + 1, hr, t)

\* execute_rules that forgets the system's enabled flag
execute_rules_unguarded(sys, hr, t) ==
    LET st == execute_rules_loop(
                  [devices |-> sys.devices, rules |-> sys.rules, log |-> <<>>],
                  1, hr, t)
    IN  [devices |-> st.devices, rules |-> st.rules, enabled |-> sys.enabled,
         last_execution |-> t, ran |-> TRUE, log |-> st.log]

\* AutomationSystem.execute_rules at time t, run without interruption, on
\* sys = [devices, rules, enabled, last_execution]; the result adds the log.
execute_rules(sys, hr, t) ==
    IF ~sys.enabled
        THEN [devices |-> sys.devices, rules |-> sys.rules, enabled |-> sys.enabled,
              last_execution |-> sys.last_execution, ran |-> FALSE, log |-> <<>>]
    ELSE LET st == execute_rules_loop(
                       [devices |-> sys.devices, rules |-> sys.rules, log |-> <<>>],
                       1, hr, t)
         IN  [devices |-> st.devices, rules |-> st.rules, enabled |-> sys.enabled,
              last_execution |-> t, ran |-> TRUE, log |-> st.log]

\* toggle that only ever switches the system off
system_toggle_off(flag) == FALSE

\* AutomationSystem.toggle
system_toggle(flag) == ~flag

\* AutomationSystem.add_device / remove_device
add_device(devs, device) == Append(devs, device)

remove_device(devs, device_id) ==
    LET keep(d) == d.device_id # device_id
    IN  SelectSeq(devs, keep)

\* AutomationSystem.add_rule / remove_rule
add_rule(rs, rule) == Append(rs, rule)

remove_rule(rs, rule_name) ==
    LET keep(r) == r.name # rule_name
    IN  SelectSeq(rs, keep)

\* a lookup that keeps scanning and returns the last device with the id
RECURSIVE get_device_by_id_last_from(_, _, _)
get_device_by_id_last_from(devs, device_id, i) ==
    IF i < 1 THEN [at |-> 0, ret |-> None]
    ELSE IF devs[i].device_id = device_id THEN [at |-> i, ret |-> Some(devs[i])]
    ELSE get_device_by_id_last_from(devs, device_id, i - 1)

get_device_by_id_last(devs, device_id) ==
    get_device_by_id_last_from(devs, device_id, Len(devs))

\* AutomationSystem.get_device_by_id: the for loop from position i on.  The
\* result is None or the device found (ret) and where it stands (at, 0 for None).
RECURSIVE get_device_by_id_from(_, _, _)
get_device_by_id_from(devs, device_id, i) ==
    IF i > Len(devs) THEN [at |-> 0, ret |-> None]
    ELSE IF devs[i].device_id = device_id THEN [at |-> i, ret |-> Some(devs[i])]
    ELSE get_device_by_id_from(devs, device_id, i + 1)

get_device_by_id(devs, device_id) == get_device_by_id_from(devs, device_id, 1)

\* One iteration of Dashboard.simulation_loop run without interruption, on
\* sys = [devices, rules, enabled, last_execution]: the rule pass, then
\* update_current_temp on every thermostat that is on; nothing if disabled.
simulation_tick(sys, hr, t) ==
    LET r == execute_rules(sys, hr, t)
        f(d) == IF IsThermostat(d) /\ d.status THEN update_current_temp(d) ELSE d
    IN  IF ~sys.enabled THEN r
        ELSE [r EXCEPT !.devices = [i \in 1..Len(r.devices) |-> f(r.devices[i])]]

(***************************************************************************)
(* main.py: the reference configuration                                    *)
(***************************************************************************)

\* Bounds of the model
MaxTime == 2   \* the clock stops advancing at MaxTime
MaxCmds == 1   \* presentation commands handled in one run

\* tm_hour, abstracted to the morning hour, the evening hour and one other hour
Hours == {MorningHour, 12, EveningHour}

\* create_devices, one room's worth of each kind (the ids, rooms and colour
\* temperatures are those of main.py, in main.py's order)
RefDevices ==
    << Thermostat("Living Room Thermostat", "Living Room"),
       SmartWindow("Living Room Window", "Living Room"),
       SmartFan("Living Room Fan", "Living Room"),
       SmartLight("Bedroom Lamp", "Bedroom", 2700),
       SmartLight("Entrance Light", "Entrance", 4000),
       SecurityCamera("Front Door Camera", "Entrance"),
       SmartDoor("Front Door", "Entrance") >>

\* create_automation_system: the six rules in the order they are added
RefRules ==
    << AutomationRule("Motion Lighting"),
       AutomationRule("Temperature Control"),
       AutomationRule("Auto Lock"),
       AutomationRule("Energy Saving"),
       AutomationRule("Morning Routine"),
       AutomationRule("Evening Routine") >>

\* The same six rules added with the routines first: add_rule takes any order
RoutinesFirst ==
    << RefRules[5], RefRules[6], RefRules[1], RefRules[2], RefRules[3], RefRules[4] >>

RuleLists == {RefRules, RoutinesFirst}

\* entered: the tick found the system enabled; active, ran, dirty, log: the rule
\* pass is in progress, got past its own enabled check, was cut into by a
\* command, and what each iteration did; visits: the thermostat loop so far
NoPass ==
    [entered |-> FALSE, active |-> FALSE, ran |-> FALSE, dirty |-> FALSE, log |-> <<>>,
     visits |-> <<>>]

\* States the cards' mutators leave each device in
ThermostatInputs(d) ==
    { d,                                                             \* off, at 20
      set_temperature(d, Deg(20)),                                   \* on, at 20
      update_current_temp(update_current_temp(set_temperature(d, Deg(21)))) }  \* on, at 21

CameraInputs(d) ==
    { d, toggle_status(d), detect_motion(d, TRUE), detect_motion(toggle_status(d), TRUE) }

DoorInputs(d) ==
    { d,                                                \* off, locked, closed
      toggle_lock(d),                                   \* off, unlocked
      toggle_lock(toggle_status(d)),                    \* on, unlocked
      open_door(toggle_lock(toggle_status(d))) }        \* on, unlocked, open

\* The other devices as constructed
Fresh == [i \in 2..5 |-> RefDevices[i]]

\* The other devices after use: window open with the blinds half down, fan
\* running, lamp lit, entrance light dimmed to 60 and then switched off
Used ==
    [i \in 2..5 |->
        CASE i = 2 -> set_blinds_percentage(set_open_percentage(RefDevices[2], 40), 50)
          [] i = 3 -> set_speed(RefDevices[3], 2)
          [] i = 4 -> set_brightness(RefDevices[4], 40)
          [] i = 5 -> toggle_status(set_brightness(RefDevices[5], 60))]

Registry(t, rest, c, d) == <<t, rest[2], rest[3], rest[4], rest[5], c, d>>

\* main.py's second thermostat, as constructed (off, at 20) or switched on
BedroomThermostat == Thermostat("Bedroom Thermostat", "Bedroom")
BedroomInputs == { BedroomThermostat, set_temperature(BedroomThermostat, Deg(20)) }

\* The registries the engine is exercised on: the seven devices in the states
\* above, and the second thermostat added after them
RegistryInputs ==
    { Append(Registry(t, rest, c, d), b) :
        t \in ThermostatInputs(RefDevices[1]), rest \in {Fresh, Used},
        c \in CameraInputs(RefDevices[6]), d \in DoorInputs(RefDevices[7]),
        b \in BedroomInputs }

\* The home with every device switched on and the door unlocked
InUse ==
    Registry(set_temperature(RefDevices[1], Deg(20)),
             [Used EXCEPT ![5] = set_brightness(RefDevices[5], 60)],
             toggle_status(RefDevices[6]),
             toggle_lock(toggle_status(RefDevices[7])))

Homes == {RefDevices, InUse}

\* AutomationSystem.__init__ and Dashboard.__init__: the system as main() builds
\* it, the simulation thread about to enter its loop; the registry is as
\* constructed or in use, the clock is one tick past the construction
Init ==
    /\ devices \in Homes
    /\ rules = RefRules
    /\ enabled = TRUE
    /\ now = 1
    /\ last_execution = 0
    /\ hour \in Hours
    /\ pc = "loop"
    /\ ri = 1
    /\ di = 1
    /\ timers = [i \in 1..Len(RefDevices) |-> 0]
    /\ cmds = 0
    /\ pass = NoPass
    /\ call = [op |-> "init"]

(***************************************************************************)
(* ui/dashboard.py: Dashboard.simulation_loop, the background thread.      *)
(* One action per statement that reads or writes the shared system; the    *)
(* main thread's handlers can run between any two of them.                 *)
(***************************************************************************)

Driver == [op |-> "driver"]

\* simulation_loop: if self.system.enabled
LoopCheck ==
    /\ pc = "loop"
    /\ pc' = IF enabled THEN "exec" ELSE "sleep"
    /\ pass' = [NoPass EXCEPT !.entered = enabled]
    /\ call' = Driver
    /\ UNCHANGED <<devices, rules, enabled, last_execution, now, hour, ri, di, timers, cmds>>

\* execute_rules: the enabled check and last_execution = time.time()
ExecEnter ==
    /\ pc = "exec"
    /\ IF ~enabled
          THEN /\ pc' = "thermo"
               /\ pass' = [NoPass EXCEPT !.entered = TRUE]
               /\ UNCHANGED <<last_execution, ri>>
          ELSE /\ last_execution' = now
               /\ ri' = 1
               /\ pc' = "rule"
               /\ pass' = [NoPass EXCEPT !.entered = TRUE, !.active = TRUE, !.ran = TRUE]
    /\ di' = 1
    /\ call' = [op |-> "execute_rules", was_enabled |-> enabled]
    /\ UNCHANGED <<devices, rules, enabled, now, hour, timers, cmds>>

LogEntry(i, applied, evaluated, fired) ==
    [rule |-> i, applied |-> applied, evaluated |-> evaluated, fired |-> fired]

\* execute_rules: for rule in self.rules: if rule.enabled
RuleCheck ==
    /\ pc = "rule"
    /\ IF ri > Len(rules)
          THEN /\ pc' = "thermo"
               /\ pass' = [pass EXCEPT !.active = FALSE]
               /\ ri' = ri
          ELSE IF rules[ri].enabled
          THEN /\ pc' = "apply"
               /\ UNCHANGED <<pass, ri>>
          ELSE /\ pc' = "rule"
               /\ ri' = ri + 1
               /\ pass' = [pass EXCEPT !.log = Append(@, LogEntry(ri, FALSE, FALSE, FALSE))]
    /\ call' = Driver
    /\ UNCHANGED <<devices, rules, enabled, last_execution, now, hour, di, timers, cmds>>

\* apply whose condition polls the cameras with detect_motion() instead of
\* reading motion_detected (the poll here yields motion)
ApplyEnter_polling ==
    /\ pc = "apply"
    /\ IF ~rules[ri].enabled
          THEN /\ pc' = "rule"
               /\ ri' = ri + 1
               /\ pass' = [pass EXCEPT !.log = Append(@, LogEntry(ri, TRUE, FALSE, FALSE))]
               /\ call' = [op |-> "apply", rule |-> ri, was_enabled |-> FALSE, ret |-> FALSE]
          ELSE IF Condition(rules[ri], devices, hour)
          THEN /\ pc' = "action"
               /\ ri' = ri
               /\ pass' = [pass EXCEPT !.log = Append(@, LogEntry(ri, TRUE, TRUE, TRUE))]
               /\ call' = Driver
          ELSE /\ pc' = "rule"
               /\ ri' = ri + 1
               /\ pass' = [pass EXCEPT !.log = Append(@, LogEntry(ri, TRUE, TRUE, FALSE))]
               /\ call' = [op |-> "apply", rule |-> ri, was_enabled |-> TRUE, ret |-> FALSE]
    /\ devices' = [i \in 1..Len(devices) |->
                      IF IsCamera(devices[i]) /\ rules[ri].enabled
                         THEN detect_motion(devices[i], TRUE) ELSE devices[i]]
    /\ UNCHANGED <<rules, enabled, last_execution, now, hour, di, timers, cmds>>

\* AutomationRule.apply: if not self.enabled: return False; if self.condition(devices)
ApplyEnter ==
    /\ pc = "apply"
    /\ IF ~rules[ri].enabled
          THEN /\ pc' = "rule"
               /\ ri' = ri + 1
               /\ pass' = [pass EXCEPT !.log = Append(@, LogEntry(ri, TRUE, FALSE, FALSE))]
               /\ call' = [op |-> "apply", rule |-> ri, was_enabled |-> FALSE, ret |-> FALSE]
          ELSE IF Condition(rules[ri], devices, hour)
          THEN /\ pc' = "action"
               /\ ri' = ri
               /\ pass' = [pass EXCEPT !.log = Append(@, LogEntry(ri, TRUE, TRUE, TRUE))]
               /\ call' = Driver
          ELSE /\ pc' = "rule"
               /\ ri' = ri + 1
               /\ pass' = [pass EXCEPT !.log = Append(@, LogEntry(ri, TRUE, TRUE, FALSE))]
               /\ call' = [op |-> "apply", rule |-> ri, was_enabled |-> TRUE, ret |-> FALSE]
    /\ UNCHANGED <<devices, rules, enabled, last_execution, now, hour, di, timers, cmds>>

\* AutomationRule.apply: self.action(devices)
RunAction ==
    /\ pc = "action"
    /\ devices' = Action(rules[ri], devices)
    /\ pc' = "stamp"
    /\ call' = Driver
    /\ UNCHANGED <<rules, enabled, last_execution, now, hour, ri, di, timers, cmds, pass>>

\* AutomationRule.apply: self.last_triggered = time.time(); return True
Stamp ==
    /\ pc = "stamp"
    /\ rules' = [rules EXCEPT ![ri].last_triggered = Some(now)]
    /\ ri' = ri + 1
    /\ pc' = "rule"
    /\ call' = [op |-> "apply", rule |-> ri, was_enabled |-> TRUE, ret |-> TRUE]
    /\ UNCHANGED <<devices, enabled, last_execution, now, hour, di, timers, cmds, pass>>

\* The index of the first thermostat at or after i (Len + 1 when there is none):
\* the loop's isinstance test reads only a device's type, which never changes.
RECURSIVE NextThermostat(_, _)
NextThermostat(devs, i) ==
    IF i > Len(devs) \/ IsThermostat(devs[i]) THEN i ELSE NextThermostat(devs, i + 1)

\* the thermostat loop without its test of device.status
ThermoStep_any_status ==
    /\ pc = "thermo"
    /\ LET i == NextThermostat(devices, di)
       IN  IF i > Len(devices)
              THEN /\ pc' = "sleep"
                   /\ UNCHANGED <<devices, di, pass>>
              ELSE /\ devices' = [devices EXCEPT ![i] = update_current_temp(@)]
                   /\ pass' = [pass EXCEPT !.visits =
                                  Append(@, [dev |-> i, called |-> devices[i].status])]
                   /\ di' = i + 1
                   /\ pc' = "thermo"
    /\ call' = Driver
    /\ UNCHANGED <<rules, enabled, last_execution, now, hour, ri, timers, cmds>>

\* simulation_loop: for device in devices: if Thermostat and device.status:
\* device.update_current_temp().  One step per thermostat; visits records the
\* thermostat and whether update_current_temp was called on it.
ThermoStep ==
    /\ pc = "thermo"
    /\ LET i == NextThermostat(devices, di)
       IN  IF i > Len(devices)
              THEN /\ pc' = "sleep"
                   /\ UNCHANGED <<devices, di, pass>>
              ELSE /\ devices' = IF devices[i].status
                                    THEN [devices EXCEPT ![i] = update_current_temp(@)]
                                    ELSE devices
                   /\ pass' = [pass EXCEPT !.visits =
                                  Append(@, [dev |-> i, called |-> devices[i].status])]
                   /\ di' = i + 1
                   /\ pc' = "thermo"
    /\ call' = Driver
    /\ UNCHANGED <<rules, enabled, last_execution, now, hour, ri, timers, cmds>>

\* simulation_loop: root.after(0, update_ui) (a read-only refresh); time.sleep(2).
\* A run spans a few ticks of 2 s: the clock hour stays the one Init drew.
Sleep ==
    /\ pc = "sleep"
    /\ now < MaxTime
    /\ now' = now + 1
    /\ hour' = hour
    /\ pc' = "loop"
    /\ pass' = NoPass
    /\ call' = Driver
    /\ UNCHANGED <<devices, rules, enabled, last_execution, ri, di, timers, cmds>>

DriverStep ==
    \/ LoopCheck
    \/ ExecEnter
    \/ RuleCheck
    \/ ApplyEnter
    \/ RunAction
    \/ Stamp
    \/ ThermoStep
    \/ Sleep

(***************************************************************************)
(* ui/dashboard.py: the presentation layer's command handlers, run by the  *)
(* Tk main thread.  Each handler is one step; it may fall between any two  *)
(* steps of the simulation thread, which takes no lock.                    *)
(***************************************************************************)

\* Values a ttk.Scale hands to its command, as int(float(v)): a few of each range
SliderPercent == {0, 40}
SliderKelvin == {6000}
SliderDegrees == {18, 24}
FanSpeeds == {0, 2}
ModeButtons == {"heat", "cool", "auto"}

\* What every handler does besides its own effect: it counts as a command and
\* marks the pass it fell into.
Handled(c) ==
    /\ cmds < MaxCmds
    /\ cmds' = cmds + 1
    /\ pass' = IF pass.active THEN [pass EXCEPT !.dirty = TRUE] ELSE pass
    /\ call' = c
    /\ UNCHANGED <<last_execution, now, hour, pc, ri, di>>

\* The handler's mutator m applied to the device of the card
OnDevice(i, d) ==
    /\ devices' = [devices EXCEPT ![i] = d]
    /\ UNCHANGED <<rules, enabled>>

\* DeviceCard.toggle_device
CmdToggleDevice ==
    \E i \in 1..Len(devices) :
        /\ OnDevice(i, toggle_status(devices[i]))
        /\ Handled([op |-> "toggle_device", dev |-> i])
        /\ UNCHANGED timers

\* create_light_controls: the brightness and colour temperature sliders
CmdSetBrightness ==
    \E i \in 1..Len(devices), v \in SliderPercent :
        /\ IsLight(devices[i])
        /\ OnDevice(i, set_brightness(devices[i], v))
        /\ Handled([op |-> "set_brightness", dev |-> i, arg |-> v])
        /\ UNCHANGED timers

CmdSetColorTemp ==
    \E i \in 1..Len(devices), v \in SliderKelvin :
        /\ IsLight(devices[i])
        /\ OnDevice(i, set_color_temp(devices[i], v))
        /\ Handled([op |-> "set_color_temp", dev |-> i, arg |-> v])
        /\ UNCHANGED timers

\* create_thermostat_controls: the temperature slider and the mode buttons
CmdSetMode ==
    \E i \in 1..Len(devices), m \in ModeButtons :
        /\ IsThermostat(devices[i])
        /\ OnDevice(i, set_mode(devices[i], m))
        /\ Handled([op |-> "set_mode", dev |-> i, mode |-> m])
        /\ UNCHANGED timers

CmdSetTemperature ==
    \E i \in 1..Len(devices), v \in SliderDegrees :
        /\ IsThermostat(devices[i])
        /\ OnDevice(i, set_temperature(devices[i], Deg(v)))
        /\ Handled([op |-> "set_temperature", dev |-> i, arg |-> Deg(v)])
        /\ UNCHANGED timers

\* DeviceCard.simulate_motion: detect_motion(True), and after(5000, ...) queues
\* detect_motion(False)
CmdSimulateMotion ==
    \E i \in 1..Len(devices) :
        /\ IsCamera(devices[i])
        /\ OnDevice(i, detect_motion(devices[i], TRUE))
        /\ timers' = [timers EXCEPT ![i] = @ + 1]
        /\ Handled([op |-> "simulate_motion", dev |-> i])

\* The queued callback of simulate_motion, run by the main thread 5 s later
MotionTimeout ==
    \E i \in 1..Len(devices) :
        /\ timers[i] > 0
        /\ timers' = [timers EXCEPT ![i] = @ - 1]
        /\ OnDevice(i, detect_motion(devices[i], FALSE))
        /\ pass' = IF pass.active THEN [pass EXCEPT !.dirty = TRUE] ELSE pass
        /\ call' = [op |-> "motion_timeout", dev |-> i]
        /\ UNCHANGED <<last_execution, now, hour, pc, ri, di, cmds>>

\* DeviceCard.toggle_recording
CmdToggleRecording ==
    \E i \in 1..Len(devices) :
        /\ IsCamera(devices[i])
        /\ OnDevice(i, IF devices[i].recording THEN stop_recording(devices[i])
                       ELSE start_recording(devices[i]))
        /\ Handled([op |-> "toggle_recording", dev |-> i])
        /\ UNCHANGED timers

\* DeviceCard.toggle_lock
CmdToggleLock ==
    \E i \in 1..Len(devices) :
        /\ IsDoor(devices[i])
        /\ OnDevice(i, toggle_lock(devices[i]))
        /\ Handled([op |-> "toggle_lock", dev |-> i])
        /\ UNCHANGED timers

\* DeviceCard.toggle_door: close_door() if the door is open, else open_door()
CmdToggleDoor ==
    \E i \in 1..Len(devices) :
        /\ IsDoor(devices[i])
        /\ IF devices[i].door_open
              THEN /\ OnDevice(i, close_door(devices[i]))
                   /\ Handled([op |-> "close_door", dev |-> i,
                               ret |-> close_door_ret(devices[i])])
              ELSE /\ OnDevice(i, open_door(devices[i]))
                   /\ Handled([op |-> "open_door", dev |-> i,
                               ret |-> open_door_ret(devices[i])])
        /\ UNCHANGED timers

\* create_window_controls: the open and blinds sliders
CmdSetOpen ==
    \E i \in 1..Len(devices), v \in SliderPercent :
        /\ IsWindow(devices[i])
        /\ OnDevice(i, set_open_percentage(devices[i], v))
        /\ Handled([op |-> "set_open_percentage", dev |-> i, arg |-> v])
        /\ UNCHANGED timers

CmdSetBlinds ==
    \E i \in 1..Len(devices), v \in SliderPercent :
        /\ IsWindow(devices[i])
        /\ OnDevice(i, set_blinds_percentage(devices[i], v))
        /\ Handled([op |-> "set_blinds_percentage", dev |-> i, arg |-> v])
        /\ UNCHANGED timers

\* create_fan_controls: the speed radio buttons
CmdSetSpeed ==
    \E i \in 1..Len(devices), v \in FanSpeeds :
        /\ IsFan(devices[i])
        /\ OnDevice(i, set_speed(devices[i], v))
        /\ Handled([op |-> "set_speed", dev |-> i, arg |-> v])
        /\ UNCHANGED timers

\* DeviceCard.toggle_oscillation
CmdToggleOscillation ==
    \E i \in 1..Len(devices) :
        /\ IsFan(devices[i])
        /\ OnDevice(i, toggle_oscillation(devices[i]))
        /\ Handled([op |-> "toggle_oscillation", dev |-> i])
        /\ UNCHANGED timers

\* AutomationPanel.toggle_automation
CmdToggleAutomation ==
    /\ enabled' = system_toggle(enabled)
    /\ Handled([op |-> "toggle_automation", ret |-> system_toggle(enabled)])
    /\ UNCHANGED <<devices, rules, timers>>

\* AutomationPanel.toggle_rule
CmdToggleRule ==
    \E r \in 1..Len(rules) :
        /\ rules' = [rules EXCEPT ![r] = rule_toggle(@)]
        /\ Handled([op |-> "toggle_rule", rule |-> r, ret |-> rule_toggle(rules[r]).enabled])
        /\ UNCHANGED <<devices, enabled, timers>>

Command ==
    \/ CmdToggleDevice
    \/ CmdSetBrightness
    \/ CmdSetColorTemp
    \/ CmdSetTemperature
    \/ CmdSetMode
    \/ CmdSimulateMotion
    \/ CmdToggleRecording
    \/ CmdToggleLock
    \/ CmdToggleDoor
    \/ CmdSetOpen
    \/ CmdSetBlinds
    \/ CmdSetSpeed
    \/ CmdToggleOscillation
    \/ CmdToggleAutomation
    \/ CmdToggleRule

Next == DriverStep \/ Command \/ MotionTimeout

Spec == Init /\ [][Next]_vars

(***************************************************************************)
(* The device classes on their own: a registry of one device, every public *)
(* mutator called with inputs inside and outside its documented range, and *)
(* the rule actions run on that registry.                                  *)
(***************************************************************************)

BrightnessInputs == {-5, 0, 1, 100, 101, 150}
KelvinInputs == {2000, 3000, 4500, 6000, 7000}
PercentInputs == {-10, 0, 40, 100, 130}
SpeedInputs == {-1, 0, 1, 3, 4}
TimerInputs == {-5, 0, 30}
\* targets in quarter degrees: 15, 19, 20.25, 21, 22, 27
TargetInputs == {Deg(15), Deg(19), Deg(20) + 1, Deg(21), Deg(22), Deg(27)}
ModeInputs == {"heat", "cool", "auto", "eco"}

\* The constructors as main.py calls them
DeviceInputs ==
    { RefDevices[i] : i \in 1..Len(RefDevices) }

DeviceInit ==
    /\ devices \in { <<d>> : d \in DeviceInputs }
    /\ rules = RefRules
    /\ enabled = TRUE
    /\ now = 1
    /\ last_execution = 0
    /\ hour = 12
    /\ pc = "idle"
    /\ ri = 1
    /\ di = 1
    /\ timers = <<0>>
    /\ cmds = 0
    /\ pass = NoPass
    /\ call = [op |-> "init"]

\* A call on the device under test: the device afterwards, and the call's record
Called(d, c) ==
    /\ devices' = <<d>>
    /\ call' = c
    /\ UNCHANGED <<rules, enabled, last_execution, now, hour, pc, ri, di, timers, cmds, pass>>

Dut == devices[1]

DevToggleStatus ==
    Called(toggle_status(Dut), [op |-> "toggle_status", dev |-> 1, ret |-> ~Dut.status])

DevSetBrightness ==
    \E b \in BrightnessInputs :
        /\ IsLight(Dut)
        /\ Called(set_brightness(Dut, b), [op |-> "set_brightness", dev |-> 1, arg |-> b])

DevSetColorTemp ==
    \E t \in KelvinInputs :
        /\ IsLight(Dut)
        /\ Called(set_color_temp(Dut, t), [op |-> "set_color_temp", dev |-> 1, arg |-> t])

DevSetTemperature ==
    \E t \in TargetInputs :
        /\ IsThermostat(Dut)
        /\ Called(set_temperature(Dut, t), [op |-> "set_temperature", dev |-> 1, arg |-> t])

DevSetMode ==
    \E m \in ModeInputs :
        /\ IsThermostat(Dut)
        /\ Called(set_mode(Dut, m), [op |-> "set_mode", dev |-> 1, mode |-> m])

DevUpdateCurrentTemp ==
    /\ IsThermostat(Dut)
    /\ Called(update_current_temp(Dut), [op |-> "update_current_temp", dev |-> 1])

\* detect_motion(force_state), and detect_motion() whose random.choice yields either
DevDetectMotion ==
    \E b \in BOOLEAN :
        /\ IsCamera(Dut)
        /\ Called(detect_motion(Dut, b), [op |-> "detect_motion", dev |-> 1, ret |-> b])

DevStartRecording ==
    /\ IsCamera(Dut)
    /\ Called(start_recording(Dut), [op |-> "start_recording", dev |-> 1])

DevStopRecording ==
    /\ IsCamera(Dut)
    /\ Called(stop_recording(Dut), [op |-> "stop_recording", dev |-> 1])

DevToggleLock ==
    /\ IsDoor(Dut)
    /\ Called(toggle_lock(Dut), [op |-> "toggle_lock", dev |-> 1, ret |-> ~Dut.locked])

DevOpenDoor ==
    /\ IsDoor(Dut)
    /\ Called(open_door(Dut), [op |-> "open_door", dev |-> 1, ret |-> open_door_ret(Dut)])

DevCloseDoor ==
    /\ IsDoor(Dut)
    /\ Called(close_door(Dut), [op |-> "close_door", dev |-> 1, ret |-> close_door_ret(Dut)])

DevSetOpenPercentage ==
    \E q \in PercentInputs :
        /\ IsWindow(Dut)
        /\ Called(set_open_percentage(Dut, q),
                  [op |-> "set_open_percentage", dev |-> 1, arg |-> q])

DevSetBlindsPercentage ==
    \E q \in PercentInputs :
        /\ IsWindow(Dut)
        /\ Called(set_blinds_percentage(Dut, q),
                  [op |-> "set_blinds_percentage", dev |-> 1, arg |-> q])

DevSetSpeed ==
    \E v \in SpeedInputs :
        /\ IsFan(Dut)
        /\ Called(set_speed(Dut, v), [op |-> "set_speed", dev |-> 1, arg |-> v])

DevToggleOscillation ==
    /\ IsFan(Dut)
    /\ Called(toggle_oscillation(Dut),
              [op |-> "toggle_oscillation", dev |-> 1, ret |-> toggle_oscillation(Dut).oscillating])

DevSetTimer ==
    \E m \in TimerInputs :
        /\ IsFan(Dut)
        /\ Called(set_timer(Dut, m), [op |-> "set_timer", dev |-> 1, arg |-> m])

\* device.get_details(): a query, the device is left as it was
DevGetDetails ==
    Called(Dut, [op |-> "get_details", dev |-> 1, details |-> get_details(Dut)])

\* rule.action(devices) of a reference rule, on the one-device registry
DevRuleAction ==
    \E r \in 1..Len(rules) :
        /\ devices' = Action(rules[r], devices)
        /\ call' = [op |-> "action", rule |-> r]
        /\ UNCHANGED <<rules, enabled, last_execution, now, hour, pc, ri, di, timers, cmds, pass>>

DeviceNext ==
    \/ DevToggleStatus
    \/ DevSetBrightness
    \/ DevSetColorTemp
    \/ DevSetTemperature
    \/ DevSetMode
    \/ DevUpdateCurrentTemp
    \/ DevDetectMotion
    \/ DevStartRecording
    \/ DevStopRecording
    \/ DevToggleLock
    \/ DevOpenDoor
    \/ DevCloseDoor
    \/ DevSetOpenPercentage
    \/ DevSetBlindsPercentage
    \/ DevSetSpeed
    \/ DevToggleOscillation
    \/ DevSetTimer
    \/ DevGetDetails
    \/ DevRuleAction

DeviceSpec == DeviceInit /\ [][DeviceNext]_vars

\* The device classes with the caller of simulation_loop: update_current_temp
\* is called again and again (every 2 s), so a thermostat whose temperature
\* can still move is eventually stepped.
DeviceFairSpec == DeviceSpec /\ WF_vars(DevUpdateCurrentTemp)

(***************************************************************************)
(* The engine on its own: the AutomationSystem API called from one thread, *)
(* each call running to completion, on the registries of RegistryInputs.   *)
(* The clock advances by one before every call.                            *)
(***************************************************************************)

MaxCalls == 2   \* API calls in one run

EngineInit ==
    /\ devices \in RegistryInputs
    /\ rules \in RuleLists
    /\ enabled = TRUE
    /\ now = 1
    /\ last_execution = 0
    /\ hour \in Hours
    /\ pc = "idle"
    /\ ri = 1
    /\ di = 1
    /\ timers = [i \in 1..Len(RefDevices) |-> 0]
    /\ cmds = 0
    /\ pass = NoPass
    /\ call = [op |-> "init"]

Tick ==
    /\ now <= MaxCalls
    /\ now' = now + 1
    /\ UNCHANGED <<hour, pc, ri, di, timers, cmds>>

\* system.execute_rules()
ApiExecuteRules ==
    LET r == execute_rules([devices |-> devices, rules |-> rules, enabled |-> enabled,
                            last_execution |-> last_execution], hour, now + 1)
    IN  /\ Tick
        /\ devices' = r.devices
        /\ rules' = r.rules
        /\ last_execution' = r.last_execution
        /\ enabled' = r.enabled
        /\ pass' = [NoPass EXCEPT !.ran = r.ran, !.log = r.log]
        /\ call' = [op |-> "execute_rules", was_enabled |-> enabled]

\* rule.apply(system.devices); the call's record keeps the registry it was given
ApiApply ==
    \E i \in 1..Len(rules) :
        LET r == apply(rules[i], devices, hour, now + 1)
        IN  /\ Tick
            /\ devices' = r.devices
            /\ rules' = [rules EXCEPT ![i] = r.rule]
            /\ call' = [op |-> "apply", rule |-> i, was_enabled |-> rules[i].enabled,
                        ret |-> r.ret, evaluated |-> r.evaluated, acted |-> r.acted,
                        before |-> devices]
            /\ UNCHANGED <<enabled, last_execution, pass>>

\* system.toggle()
ApiToggle ==
    /\ Tick
    /\ enabled' = system_toggle(enabled)
    /\ call' = [op |-> "toggle", ret |-> system_toggle(enabled), was |-> enabled]
    /\ UNCHANGED <<devices, rules, last_execution, pass>>

\* rule.toggle()
ApiRuleToggle ==
    \E i \in 1..Len(rules) :
        /\ Tick
        /\ rules' = [rules EXCEPT ![i] = rule_toggle(@)]
        /\ call' = [op |-> "rule_toggle", rule |-> i, ret |-> rule_toggle(rules[i]).enabled,
                    was |-> rules[i].enabled]
        /\ UNCHANGED <<devices, enabled, last_execution, pass>>

EngineNext ==
    \/ ApiExecuteRules
    \/ ApiApply
    \/ ApiToggle
    \/ ApiRuleToggle

EngineSpec == EngineInit /\ [][EngineNext]_vars

(***************************************************************************)
(* The rules applied one after another while the wall clock moves on: the  *)
(* routines' conditions read time.localtime().tm_hour, which changes       *)
(* between two calls when an hour ends.                                    *)
(***************************************************************************)

\* The home as constructed, in use, and in use with motion at the door
ApplyRegistries == Homes \cup { [InUse EXCEPT ![6] = detect_motion(@, TRUE)] }

ApplyInit ==
    /\ devices \in ApplyRegistries
    /\ rules = RefRules
    /\ enabled = TRUE
    /\ now = 1
    /\ last_execution = 0
    /\ hour \in Hours
    /\ pc = "idle"
    /\ ri = 1
    /\ di = 1
    /\ timers = [i \in 1..Len(RefDevices) |-> 0]
    /\ cmds = 0
    /\ pass = NoPass
    /\ call = [op |-> "init"]

\* The hour ends: tm_hour reads differently from now on
HourPasses ==
    /\ hour' \in Hours \ {hour}
    /\ UNCHANGED <<devices, rules, enabled, last_execution, now, pc, ri, di, timers, cmds,
                   pass, call>>

ApplyNext ==
    \/ ApiApply
    \/ HourPasses

ApplySpec == ApplyInit /\ [][ApplyNext]_vars

(***************************************************************************)
(* The registry on its own: a system as AutomationSystem.__init__ leaves   *)
(* it, filled and emptied through add_device, remove_device, add_rule and  *)
(* remove_rule, looked up, and run (rule passes and whole ticks), from one *)
(* thread.  The clock advances by one before every call.                   *)
(***************************************************************************)

MaxOps == 4   \* registry calls in one run

\* Devices handed to add_device: a camera that is on and reports motion, the
\* entrance light, a second light constructed with the same id, and a
\* thermostat switched on with target 22
DevicePool ==
    { detect_motion(toggle_status(RefDevices[6]), TRUE),
      RefDevices[5],
      SmartLight("Entrance Light", "Hall", 3000),
      set_temperature(RefDevices[1], Deg(22)) }

\* Ids asked of get_device_by_id and remove_device; no device is "Back Door"
IdPool == {"Entrance Light", "Front Door Camera", "Back Door"}

\* Rules handed to add_rule and names handed to remove_rule
RulePool == {"Motion Lighting", "Temperature Control"}

RegistryInit ==
    /\ devices = <<>>
    /\ rules = <<>>
    /\ enabled = TRUE
    /\ now = 1
    /\ last_execution = 0
    /\ hour = 12
    /\ pc = "idle"
    /\ ri = 1
    /\ di = 1
    /\ timers = <<>>
    /\ cmds = 0
    /\ pass = NoPass
    /\ call = [op |-> "init"]

RegistryCall ==
    /\ now <= MaxOps
    /\ now' = now + 1
    /\ UNCHANGED <<hour, pc, ri, di, timers, cmds>>

\* system.add_device(device)
RegAddDevice ==
    \E d \in DevicePool :
        /\ RegistryCall
        /\ devices' = add_device(devices, d)
        /\ call' = [op |-> "add_device", id |-> d.device_id]
        /\ UNCHANGED <<rules, enabled, last_execution, pass>>

\* system.remove_device(device_id)
RegRemoveDevice ==
    \E id \in IdPool :
        /\ RegistryCall
        /\ devices' = remove_device(devices, id)
        /\ call' = [op |-> "remove_device", id |-> id]
        /\ UNCHANGED <<rules, enabled, last_execution, pass>>

\* system.add_rule(rule)
RegAddRule ==
    \E n \in RulePool :
        /\ RegistryCall
        /\ rules' = add_rule(rules, AutomationRule(n))
        /\ call' = [op |-> "add_rule", name |-> n]
        /\ UNCHANGED <<devices, enabled, last_execution, pass>>

\* system.remove_rule(rule_name)
RegRemoveRule ==
    \E n \in RulePool :
        /\ RegistryCall
        /\ rules' = remove_rule(rules, n)
        /\ call' = [op |-> "remove_rule", name |-> n]
        /\ UNCHANGED <<devices, enabled, last_execution, pass>>

\* system.get_device_by_id(device_id)
RegGetDeviceById ==
    \E id \in IdPool :
        LET r == get_device_by_id(devices, id)
        IN  /\ RegistryCall
            /\ call' = [op |-> "get_device_by_id", id |-> id, at |-> r.at, found |-> r.ret]
            /\ UNCHANGED <<devices, rules, enabled, last_execution, pass>>

\* system.execute_rules()
RegExecuteRules ==
    LET r == execute_rules([devices |-> devices, rules |-> rules, enabled |-> enabled,
                            last_execution |-> last_execution], hour, now + 1)
    IN  /\ RegistryCall
        /\ devices' = r.devices
        /\ rules' = r.rules
        /\ last_execution' = r.last_execution
        /\ enabled' = r.enabled
        /\ pass' = [NoPass EXCEPT !.ran = r.ran, !.log = r.log]
        /\ call' = [op |-> "execute_rules", was_enabled |-> enabled]

\* one iteration of simulation_loop
RegSimulationTick ==
    LET r == simulation_tick([devices |-> devices, rules |-> rules, enabled |-> enabled,
                              last_execution |-> last_execution], hour, now + 1)
    IN  /\ RegistryCall
        /\ devices' = r.devices
        /\ rules' = r.rules
        /\ last_execution' = r.last_execution
        /\ enabled' = r.enabled
        /\ pass' = [NoPass EXCEPT !.ran = r.ran, !.log = r.log]
        /\ call' = [op |-> "simulation_tick", was_enabled |-> enabled]

RegistryNext ==
    \/ RegAddDevice
    \/ RegRemoveDevice
    \/ RegAddRule
    \/ RegRemoveRule
    \/ RegGetDeviceById
    \/ RegExecuteRules
    \/ RegSimulationTick

RegistrySpec == RegistryInit /\ [][RegistryNext]_vars

(***************************************************************************)
(* The simulation thread left to itself: the presentation layer issues no  *)
(* command any more.  The thread's steps are those of Spec; the loop is    *)
(* `while True` with a sleep of 2 s, on a thread that runs as long as the  *)
(* application, so its next step is always taken.  The clock reading       *)
(* saturates at MaxTime and the hour of the day may change at any time.    *)
(***************************************************************************)

MaxDrift == 8   \* update_current_temp calls behind a thermostat's first state

\* update_current_temp called n times
RECURSIVE Drifted(_, _)
Drifted(d, n) == IF n = 0 THEN d ELSE Drifted(update_current_temp(d), n - 1)

\* The ends of the temperature slider of a thermostat card
SliderMin == 10
SliderMax == 30

\* States the earlier commands left the living room thermostat in: the slider
\* was at one end while the temperature drifted up to MaxDrift half degrees
\* from 20, was then moved to a target, and the card was switched off or not
LoopThermostats ==
    { IF on THEN set_temperature(Drifted(set_temperature(RefDevices[1], Deg(far)), n), Deg(tg))
            ELSE toggle_status(
                    set_temperature(Drifted(set_temperature(RefDevices[1], Deg(far)), n), Deg(tg)))
        : far \in {SliderMin, SliderMax}, n \in 0..MaxDrift,
          tg \in {SliderMin} \cup SliderDegrees \cup {SliderMax}, on \in BOOLEAN }

\* The home in use with the living room thermostat in one of these states,
\* and the second thermostat added after the seven devices
LoopRegistries ==
    { Append([InUse EXCEPT ![1] = t], b) : t \in LoopThermostats, b \in BedroomInputs }

LoopInit ==
    /\ devices \in LoopRegistries
    /\ rules \in RuleLists
    /\ enabled = TRUE
    /\ now = 1
    /\ last_execution = 0
    /\ hour \in Hours
    /\ pc = "loop"
    /\ ri = 1
    /\ di = 1
    /\ timers = [i \in 1..Len(RefDevices) + 1 |-> 0]
    /\ cmds = 0
    /\ pass = NoPass
    /\ call = [op |-> "init"]

\* simulation_loop: time.sleep(2), once the clock reading has saturated
SleepLate ==
    /\ pc = "sleep"
    /\ now >= MaxTime
    /\ pc' = "loop"
    /\ pass' = NoPass
    /\ call' = Driver
    /\ UNCHANGED <<devices, rules, enabled, last_execution, now, hour, ri, di, timers, cmds>>

\* The next step of the simulation thread
LoopStep == DriverStep \/ SleepLate

LoopNext ==
    \/ LoopStep
    \/ HourPasses

LoopFairSpec == LoopInit /\ [][LoopNext]_vars /\ WF_vars(LoopStep)

(***************************************************************************)
(* Properties of the device classes, checked under DeviceSpec              *)
(***************************************************************************)

\* C6: for every brightness input b, after set_brightness(b) the stored
\* brightness is clamp(b, 0, 100) and the on flag is (stored brightness > 0).
C6_SetBrightnessClamps ==
    call.op = "set_brightness" =>
        LET d == devices[call.dev]
        IN  /\ d.brightness = Clamp(call.arg, 0, 100)
            /\ d.status = (d.brightness > 0)

\* C7: for every fan speed input s, after set_speed(s) the stored speed is
\* clamp(s, 0, 3) and the on flag is (stored speed > 0).
C7_SetSpeedClamps ==
    call.op = "set_speed" =>
        LET d == devices[call.dev]
        IN  /\ d.speed = Clamp(call.arg, 0, 3)
            /\ d.status = (d.speed > 0)

\* set_speed was called with a speed above the range and 3 was stored
C7_Witness ==
    /\ call.op = "set_speed"
    /\ call.arg > 3
    /\ devices[call.dev].speed = 3
    /\ devices[call.dev].status

\* C8: set_open_percentage(p) stores clamp(p, 0, 100) and sets the on flag to
\* (open percentage > 0); set_blinds_percentage(p) stores clamp(p, 0, 100) as the
\* blinds percentage and leaves the open percentage and the on flag as they were.
C8_WindowPercentages ==
    [][ /\ call'.op = "set_open_percentage" =>
              LET w == devices'[call'.dev]
              IN  /\ w.open_percentage = Clamp(call'.arg, 0, 100)
                  /\ w.status = (w.open_percentage > 0)
        /\ call'.op = "set_blinds_percentage" =>
              LET w == devices'[call'.dev]
                  w0 == devices[call'.dev]
              IN  /\ w.blinds_percentage = Clamp(call'.arg, 0, 100)
                  /\ w.open_percentage = w0.open_percentage
                  /\ w.status = w0.status
      ]_vars

\* the blinds of an open window were set with a value above the range
C8_Witness ==
    /\ call.op = "set_blinds_percentage"
    /\ call.arg > 100
    /\ devices[call.dev].blinds_percentage = 100
    /\ devices[call.dev].open_percentage = 40
    /\ devices[call.dev].status

\* C9: in every reachable state of every window the stored light_level equals
\* open_percentage * (100 - blinds_percentage) / 100 (here in hundredths).
C9_LightLevelDerived ==
    \A i \in 1..Len(devices) :
        IsWindow(devices[i]) =>
            devices[i].light_level
                = devices[i].open_percentage * (100 - devices[i].blinds_percentage)

\* C10: open_door() on a locked door returns false and leaves the door as it
\* was; on an unlocked door it returns true and the door is open, the lock as it
\* was.  close_door() returns true and leaves the door closed, locked or not.
C10_DoorOpenClose ==
    [][ /\ call'.op = "open_door" =>
              LET d0 == devices[call'.dev]
                  d1 == devices'[call'.dev]
              IN  IF d0.locked
                     THEN call'.ret = FALSE /\ d1 = d0
                     ELSE /\ call'.ret = TRUE
                          /\ d1.door_open
                          /\ d1.locked = d0.locked
                          /\ d1.status = d0.status
        /\ call'.op = "close_door" =>
              /\ call'.ret = TRUE
              /\ ~devices'[call'.dev].door_open
              /\ devices'[call'.dev].locked = devices[call'.dev].locked
      ]_vars

\* open_door() was refused on a locked, closed door
C10_Witness ==
    /\ call.op = "open_door"
    /\ call.ret = FALSE
    /\ devices[call.dev].locked
    /\ ~devices[call.dev].door_open

\* C11: in every reachable state, after any sequence of open_door, close_door,
\* toggle_lock and Auto Lock firings, no door is both open and locked.
C11_NoDoorOpenAndLocked ==
    \A i \in 1..Len(devices) :
        IsDoor(devices[i]) => ~(devices[i].door_open /\ devices[i].locked)

\* C12: update_current_temp() moves the current temperature by exactly 0.5
\* toward the target when they differ, leaves it unchanged when they are equal,
\* never lands on the other side of the target (a remaining distance below 0.5
\* ends on the target), and never changes the target.
C12_ClampedStepping ==
    [][ call'.op = "update_current_temp" =>
            LET t0 == devices[call'.dev].temperature
                t1 == devices'[call'.dev].temperature
                tg == devices[call'.dev].target_temp
            IN  /\ devices'[call'.dev].target_temp = tg
                /\ t0 = tg => t1 = t0
                /\ Abs(tg - t0) >= HalfDeg => Abs(t1 - t0) = HalfDeg
                /\ t0 < tg => (t0 < t1 /\ t1 <= tg)
                /\ t0 > tg => (t0 > t1 /\ t1 >= tg)
      ]_vars

\* C13: for a thermostat whose target is held fixed at a value set_temperature
\* accepted, repeated update_current_temp() calls bring the current temperature
\* to exactly the target after finitely many calls, and it stays there.
C13_ConvergesToTarget ==
    \A T \in TargetInputs :
        <>[](IsThermostat(Dut) /\ Dut.target_temp = T)
            => <>[](IsThermostat(Dut) /\ Dut.temperature = T)

\* The colour band of a temperature, by its five ranges
Band(t) ==
    CASE t < Deg(16) -> "cold"
      [] Deg(16) <= t /\ t < Deg(19) -> "cool"
      [] Deg(19) <= t /\ t < Deg(23) -> "neutral"
      [] Deg(23) <= t /\ t < Deg(26) -> "warm"
      [] Deg(26) <= t -> "hot"

\* C14: in every reachable state a thermostat's colour band is the band of its
\* current temperature (cold < 16, cool < 19, neutral < 23, warm < 26, else hot).
C14_ColorBandMatchesTemperature ==
    \A i \in 1..Len(devices) :
        IsThermostat(devices[i]) => devices[i].color = Band(devices[i].temperature)

\* update_current_temp has just taken a thermostat out of the neutral band
C14_Witness ==
    /\ call.op = "update_current_temp"
    /\ devices[call.dev].temperature \in {Deg(19) - HalfDeg, Deg(23)}
    /\ devices[call.dev].color \in {"cool", "warm"}


\* C15: for every device variant and every value of its other attributes,
\* get_details returns the fixed "OFF" summary whenever the on flag is false.
C15_OffSummaryWhenOff ==
    (call.op = "get_details" /\ ~devices[call.dev].status) =>
        /\ call.details.text = "OFF"
        /\ Len(call.details.args) = 0

\* C15 as amended: with the on flag false, get_details returns a fixed summary
\* made of the device's id and room only: "OFF" for a light, thermostat, camera,
\* door or fan, "CLOSED" for a window.
C15_FixedSummaryWhenOff ==
    (call.op = "get_details" /\ ~devices[call.dev].status) =>
        LET d == devices[call.dev]
        IN  /\ call.details.device_id = d.device_id
            /\ call.details.room = d.room
            /\ call.details.text = (IF IsWindow(d) THEN "CLOSED" ELSE "OFF")
            /\ Len(call.details.args) = 0

\* get_details was asked of a light that is off with its brightness still set
C15_Witness ==
    /\ call.op = "get_details"
    /\ IsLight(devices[call.dev])
    /\ ~devices[call.dev].status
    /\ devices[call.dev].brightness > 0
    /\ call.details.text = "OFF"

\* C27: in every reachable state of the reference configuration, from
\* construction on, every light's colour temperature lies in [3000, 6000], and
\* set_color_temp(t) stores clamp(t, 3000, 6000) for every input t.
C27_ColorTempInRange ==
    /\ \A i \in 1..Len(devices) :
          IsLight(devices[i]) =>
              (3000 <= devices[i].color_temp /\ devices[i].color_temp <= 6000)
    /\ call.op = "set_color_temp" =>
          devices[call.dev].color_temp = Clamp(call.arg, 3000, 6000)

\* C34: in every reachable state, after any sequence of set_brightness,
\* toggle_status and rule actions, a light's on flag equals (brightness > 0) and
\* its brightness lies in [0, 100].
C34_LightOnIffBright ==
    \A i \in 1..Len(devices) :
        IsLight(devices[i]) =>
            /\ devices[i].status = (devices[i].brightness > 0)
            /\ 0 <= devices[i].brightness
            /\ devices[i].brightness <= 100

(***************************************************************************)
(* Properties of the registry, checked under RegistrySpec                  *)
(***************************************************************************)

\* The device_ids of a registry, in order
Ids(devs) == [i \in 1..Len(devs) |-> devs[i].device_id]

\* What a device is for good: its id, class and room
Identity(devs) ==
    [i \in 1..Len(devs) |->
        [device_id |-> devs[i].device_id, device_type |-> devs[i].device_type,
         room |-> devs[i].room]]

\* The rule names of a rule list, in order
Names(rs) == [i \in 1..Len(rs) |-> rs[i].name]

\* C22: after any sequence of add_device and remove_device calls no two
\* devices of the registry have the same device_id, and no operation changes
\* the device_id of a device in the registry.
C22_DeviceIdsUniqueAndFixed ==
    [][ /\ \A i, j \in 1..Len(devices') :
              i # j => devices'[i].device_id # devices'[j].device_id
        /\ call'.op \notin {"add_device", "remove_device"} => Ids(devices') = Ids(devices)
      ]_vars

\* C23: get_device_by_id(id) returns the first device in registry order whose
\* device_id is id, None when no device has that id, and leaves the registry
\* as it was.
C23_GetDeviceById ==
    [][ call'.op = "get_device_by_id" =>
            LET m == {i \in 1..Len(devices) : devices[i].device_id = call'.id}
            IN  /\ devices' = devices
                /\ m = {} => (Len(call'.found) = 0 /\ call'.at = 0)
                /\ m # {} =>
                      /\ call'.at \in m
                      /\ \A j \in m : call'.at <= j
                      /\ Len(call'.found) = 1
                      /\ call'.found[1] = devices[call'.at]
      ]_vars

\* a lookup found the first of two devices with the same id, which differ
C23_Witness ==
    /\ call.op = "get_device_by_id"
    /\ call.at > 0
    /\ \E j \in 1..Len(devices) :
          /\ j > call.at
          /\ devices[j].device_id = call.id
          /\ devices[j] # devices[call.at]

\* C28: no rule action, execute_rules pass or driver tick adds, removes or
\* reorders devices or rules: the device sequence changes only through
\* add_device and remove_device, the rule sequence only through add_rule and
\* remove_rule.
C28_RegistryFrame ==
    [][ /\ Identity(devices') # Identity(devices)
              => call'.op \in {"add_device", "remove_device"}
        /\ Names(rules') # Names(rules)
              => call'.op \in {"add_rule", "remove_rule"}
        /\ call'.op \in {"execute_rules", "simulation_tick"}
              => (Len(devices') = Len(devices) /\ Len(rules') = Len(rules))
      ]_vars

\* a pass or tick in which a rule fired on a registry of several devices and
\* changed one of them in place
C28_Witness ==
    /\ call.op \in {"execute_rules", "simulation_tick"}
    /\ Len(devices) >= 2
    /\ \E k \in 1..Len(pass.log) :
          /\ pass.log[k].fired
          /\ devices # pass.log[k].seen

(***************************************************************************)
(* Properties of the engine, checked under EngineSpec                      *)
(***************************************************************************)

\* Some enabled rule's condition holds on the current registry
SomeRuleReady ==
    \E k \in 1..Len(rules) : rules[k].enabled /\ Condition(rules[k], devices, hour)

\* C1: execute_rules() called while the system's enabled flag is false changes
\* no device, no rule's last_triggered and not last_execution.
C1_DisabledPassChangesNothing ==
    [][ (call'.op = "execute_rules" /\ ~call'.was_enabled)
            => UNCHANGED <<devices, rules, last_execution>> ]_vars

\* execute_rules() ran on a disabled system in which a rule was ready to fire
C1_Witness ==
    /\ call.op = "execute_rules"
    /\ ~call.was_enabled
    /\ ~enabled
    /\ SomeRuleReady

\* The registry iteration k of a pass left behind, from its log
LeftBy(log, rs, k) ==
    IF log[k].fired THEN Action(rs[k], log[k].seen) ELSE log[k].seen

\* C2: with the system enabled, one execute_rules() pass takes every rule once,
\* in insertion order, whatever the earlier rules returned, and every rule's
\* condition is evaluated on the registry as the rules before it left it.
C2_PassInOrderOnLiveRegistry ==
    [][ (call'.op = "execute_rules" /\ call'.was_enabled) =>
            LET log == pass'.log
                n == Len(rules)
            IN  /\ Len(log) = n
                /\ \A k \in 1..n :
                      /\ log[k].rule = k
                      /\ log[k].seen = IF k = 1 THEN devices ELSE LeftBy(log, rules, k - 1)
                      /\ log[k].fired
                            = (rules[k].enabled /\ Condition(rules[k], log[k].seen, hour))
                      /\ rules'[k].last_triggered
                            = IF log[k].fired THEN Some(now') ELSE rules[k].last_triggered
                /\ devices' = LeftBy(log, rules, n)
                /\ last_execution' = now'
      ]_vars

\* a pass in which a rule fired after an earlier rule had fired, on a condition
\* that did not hold on the registry the pass started with
C2_Witness ==
    /\ call.op = "execute_rules"
    /\ call.was_enabled
    /\ Len(pass.log) = Len(rules)
    /\ \E j, k \in 1..Len(rules) :
          /\ j < k
          /\ pass.log[j].fired
          /\ pass.log[k].fired
          /\ ~Condition(rules[k], pass.log[1].seen, hour)

\* C3: apply on a rule whose enabled flag is false returns false, evaluates no
\* condition, runs no action and changes neither a device nor last_triggered;
\* so does every iteration of an execute_rules pass over a disabled rule.
C3_DisabledRuleNoEffect ==
    [][ /\ (call'.op = "apply" /\ ~call'.was_enabled) =>
              /\ call'.ret = FALSE
              /\ ~call'.evaluated
              /\ call'.acted = 0
              /\ UNCHANGED <<devices, rules>>
        /\ (call'.op = "execute_rules" /\ call'.was_enabled) =>
              \A k \in 1..Len(rules) :
                  ~rules[k].enabled =>
                      /\ ~pass'.log[k].evaluated
                      /\ ~pass'.log[k].fired
                      /\ rules'[k] = rules[k]
                      /\ pass'.log[k].seen
                            = IF k = Len(rules) THEN devices' ELSE pass'.log[k + 1].seen
      ]_vars

\* apply was called on a disabled rule whose condition holds
C3_Witness ==
    /\ call.op = "apply"
    /\ ~call.was_enabled
    /\ ~rules[call.rule].enabled
    /\ Condition(rules[call.rule], devices, hour)

\* C4: apply on an enabled rule returns true exactly when its condition holds
\* on the registry at the call; then the action has run once and last_triggered
\* is the current time; otherwise no device and no last_triggered changes.
C4_ApplyEnabledRule ==
    [][ (call'.op = "apply" /\ call'.was_enabled) =>
            LET k == call'.rule
                c == Condition(rules[k], devices, hour)
            IN  /\ call'.ret = c
                /\ call'.evaluated
                /\ \A j \in 1..Len(rules) : j # k => rules'[j] = rules[j]
                /\ rules'[k].enabled = rules[k].enabled
                /\ IF c
                      THEN /\ call'.acted = 1
                           /\ devices' = Action(rules[k], devices)
                           /\ rules'[k].last_triggered = Some(now')
                      ELSE /\ call'.acted = 0
                           /\ UNCHANGED <<devices, rules>>
      ]_vars

\* apply fired an enabled rule: it returned true and stamped the current time
C4_Witness ==
    /\ call.op = "apply"
    /\ call.was_enabled
    /\ call.ret
    /\ rules[call.rule].last_triggered = Some(now)

\* The last call was apply, on the enabled rule of the given name
Applied(name) ==
    /\ call.op = "apply"
    /\ call.was_enabled
    /\ rules[call.rule].name = name

\* Some camera of the registry that is on reports motion
MotionSeen(devs) ==
    \E i \in 1..Len(devs) :
        IsCamera(devs[i]) /\ devs[i].status /\ devs[i].motion_detected

\* Some camera of the registry is on
CameraOn(devs) ==
    \E i \in 1..Len(devs) : IsCamera(devs[i]) /\ devs[i].status

\* C16: Motion Lighting fires exactly when some camera that is on reports
\* motion; after it fires every light, on or off before, is on with brightness
\* 100, and the rule's last_triggered is the time of the firing.
C16_MotionLighting ==
    Applied("Motion Lighting") =>
        /\ call.ret = MotionSeen(call.before)
        /\ call.ret =>
              /\ \A i \in 1..Len(devices) :
                    IsLight(devices[i]) =>
                        devices[i].status /\ devices[i].brightness = 100
              /\ rules[call.rule].last_triggered = Some(now)

\* Motion Lighting fired on a registry with a light on and a light off
C16_Witness ==
    /\ Applied("Motion Lighting")
    /\ call.ret
    /\ \E i, j \in 1..Len(devices) :
          /\ IsLight(devices[i]) /\ call.before[i].status
          /\ IsLight(devices[j]) /\ ~call.before[j].status /\ devices[j].brightness = 100

\* The registry has a camera that is on, no camera that is on reports motion,
\* and every door is unlocked
QuietWithUnlockedDoor(devs) ==
    /\ CameraOn(devs)
    /\ ~MotionSeen(devs)
    /\ \A i \in 1..Len(devs) : IsDoor(devs[i]) => ~devs[i].locked

\* C17: on a registry with one camera that is on and reports no motion and one
\* unlocked door, applying the enabled Auto Lock rule returns true and leaves
\* the door locked, whatever the door's other attributes.
C17_AutoLockLocksDoor ==
    (Applied("Auto Lock") /\ QuietWithUnlockedDoor(call.before)) =>
        /\ call.ret
        /\ \A i \in 1..Len(devices) : IsDoor(devices[i]) => devices[i].locked

\* C17 as amended: on such a registry Auto Lock returns true; it leaves the door
\* locked if the door's on flag is true, open or closed, and unlocked if the
\* door's on flag is false; the door's other attributes stay as they were.
C17_AutoLockLocksDoorThatIsOn ==
    (Applied("Auto Lock") /\ QuietWithUnlockedDoor(call.before)) =>
        /\ call.ret
        /\ \A i \in 1..Len(devices) :
              IsDoor(devices[i]) =>
                  /\ devices[i].locked = call.before[i].status
                  /\ devices[i].status = call.before[i].status
                  /\ devices[i].door_open = call.before[i].door_open

\* Auto Lock fired on an unlocked door that is on and stands open, and locked it
C17_Witness ==
    /\ Applied("Auto Lock")
    /\ QuietWithUnlockedDoor(call.before)
    /\ \E i \in 1..Len(devices) :
          IsDoor(devices[i]) /\ devices[i].status /\ devices[i].door_open /\ devices[i].locked

\* C18: Energy Saving fires exactly when at least one camera is on and no
\* camera that is on reports motion; after it fires every light that was on has
\* brightness 0 and is off, every fan that was on has speed 0 and is off, and
\* every other device, lights and fans that were off included, is unchanged.
C18_EnergySaving ==
    Applied("Energy Saving") =>
        /\ call.ret = (CameraOn(call.before) /\ ~MotionSeen(call.before))
        /\ call.ret =>
              \A i \in 1..Len(devices) :
                  LET b == call.before[i]
                      a == devices[i]
                  IN  IF IsLight(b) /\ b.status
                         THEN a.brightness = 0 /\ ~a.status
                      ELSE IF IsFan(b) /\ b.status
                         THEN a.speed = 0 /\ ~a.status
                      ELSE a = b

\* Energy Saving fired on a registry with a light and a fan on and a light off
\* with its brightness still set
C18_Witness ==
    /\ Applied("Energy Saving")
    /\ call.ret
    /\ \E i, j, k \in 1..Len(devices) :
          /\ IsLight(devices[i]) /\ call.before[i].status /\ devices[i].brightness = 0
          /\ IsFan(devices[j]) /\ call.before[j].status /\ devices[j].speed = 0
          /\ IsLight(devices[k]) /\ ~call.before[k].status /\ devices[k].brightness > 0

\* C19: Temperature Control with target T fires exactly when some thermostat
\* that is on has a current temperature more than 1 away from T; after it fires
\* every thermostat that is on has target T, and thermostats that are off and
\* every current temperature are unchanged.
C19_TemperatureControl ==
    Applied("Temperature Control") =>
        /\ call.ret =
              (\E i \in 1..Len(call.before) :
                  /\ IsThermostat(call.before[i])
                  /\ call.before[i].status
                  /\ \/ call.before[i].temperature > Deg(TargetTemp) + Deg(1)
                     \/ call.before[i].temperature < Deg(TargetTemp) - Deg(1))
        /\ call.ret =>
              \A i \in 1..Len(devices) :
                  IsThermostat(devices[i]) =>
                      /\ devices[i].temperature = call.before[i].temperature
                      /\ IF call.before[i].status
                            THEN devices[i].status /\ devices[i].target_temp = Deg(TargetTemp)
                            ELSE devices[i] = call.before[i]

\* Temperature Control fired on a registry with a thermostat that is on, two
\* degrees off the target, and a thermostat that is off
C19_Witness ==
    /\ Applied("Temperature Control")
    /\ call.ret
    /\ \E i, j \in 1..Len(devices) :
          /\ IsThermostat(devices[i]) /\ call.before[i].status
          /\ call.before[i].target_temp # Deg(TargetTemp)
          /\ devices[i].target_temp = Deg(TargetTemp)
          /\ IsThermostat(devices[j]) /\ ~call.before[j].status

\* C20: when the Morning Routine fires, afterwards every light is on at
\* brightness 70 and colour temperature 5000, every thermostat is on with
\* target 22, every window has blinds percentage 30 with its light level
\* recomputed, and no door, camera or fan has changed.
C20_MorningRoutine ==
    (Applied("Morning Routine") /\ call.ret) =>
        \A i \in 1..Len(devices) :
            LET b == call.before[i]
                a == devices[i]
            IN  /\ IsLight(b) => (a.status /\ a.brightness = 70 /\ a.color_temp = 5000)
                /\ IsThermostat(b) => (a.status /\ a.target_temp = Deg(22))
                /\ IsWindow(b) =>
                      /\ a.blinds_percentage = 30
                      /\ a.light_level = a.open_percentage * 70
                /\ (IsDoor(b) \/ IsCamera(b) \/ IsFan(b)) => a = b

\* the Morning Routine fired on a registry with an open window whose blinds
\* were half down, a light that was off and a thermostat that was off
C20_Witness ==
    /\ Applied("Morning Routine")
    /\ call.ret
    /\ hour = MorningHour
    /\ \E i, j, k \in 1..Len(devices) :
          /\ IsWindow(devices[i]) /\ call.before[i].blinds_percentage = 50
          /\ devices[i].open_percentage = 40 /\ devices[i].light_level = 2800
          /\ IsLight(devices[j]) /\ ~call.before[j].status /\ devices[j].color_temp = 5000
          /\ IsThermostat(devices[k]) /\ ~call.before[k].status /\ devices[k].status

\* C24: AutomationSystem.toggle() flips the enabled flag and returns the new
\* value; two consecutive toggle() calls restore the original value; no device,
\* rule or last_execution changes.  The same holds for AutomationRule.toggle()
\* and the rule's enabled flag, the rule's other fields and the other rules.
C24_ToggleFlipsAndTwiceRestores ==
    [][ /\ call'.op = "toggle" =>
              /\ enabled' = ~enabled
              /\ call'.ret = enabled'
              /\ UNCHANGED <<devices, rules, last_execution>>
              /\ call.op = "toggle" => enabled' = call.was
        /\ call'.op = "rule_toggle" =>
              LET k == call'.rule
              IN  /\ rules'[k].enabled = ~rules[k].enabled
                  /\ call'.ret = rules'[k].enabled
                  /\ rules' = [rules EXCEPT ![k].enabled = ~rules[k].enabled]
                  /\ UNCHANGED <<devices, enabled, last_execution>>
                  /\ (call.op = "rule_toggle" /\ call.rule = k) => rules'[k].enabled = call.was
      ]_vars

\* toggle() has been called twice in a row and the system is enabled again
C24_Witness ==
    /\ call.op = "toggle"
    /\ call.was = FALSE
    /\ call.ret = TRUE
    /\ enabled
    /\ now = 3

\* C33: in the reference rule order, at the end of every uninterrupted
\* execute_rules pass in which the Morning Routine fires, every light is on at
\* brightness 70, whichever of Motion Lighting and Energy Saving fired earlier
\* in the same pass.
C33_MorningRoutineWins ==
    (/\ call.op = "execute_rules"
     /\ pass.ran
     /\ Names(rules) = Names(RefRules)
     /\ pass.log[5].fired)
        => \A i \in 1..Len(devices) :
               IsLight(devices[i]) => (devices[i].status /\ devices[i].brightness = 70)

\* a pass in the reference order in which Energy Saving switched a lit light
\* off and the Morning Routine, two rules later, found it off and set it to 70
C33_Witness ==
    /\ call.op = "execute_rules"
    /\ pass.ran
    /\ Names(rules) = Names(RefRules)
    /\ pass.log[4].fired
    /\ pass.log[5].fired
    /\ \E i \in 1..Len(devices) :
          /\ IsLight(devices[i])
          /\ pass.log[4].seen[i].status
          /\ ~pass.log[5].seen[i].status
          /\ devices[i].status /\ devices[i].brightness = 70

\* C35: the action of each of the six reference rules is idempotent on the
\* registry: run twice in a row it leaves every device as running it once does.
C35_ActionsIdempotent ==
    \A k \in 1..Len(RefRules) :
        Action(RefRules[k], Action(RefRules[k], devices)) = Action(RefRules[k], devices)

\* Energy Saving has just switched a light and a fan off, left alone a light
\* that was off with its brightness still set, and running its action again on
\* the registry it left changes nothing
C35_Witness ==
    /\ Applied("Energy Saving")
    /\ call.ret
    /\ \E i, j, k \in 1..Len(devices) :
          /\ IsLight(devices[i]) /\ call.before[i].status /\ ~devices[i].status
          /\ IsFan(devices[j]) /\ call.before[j].status /\ ~devices[j].status
          /\ IsLight(devices[k]) /\ ~devices[k].status /\ devices[k].brightness = 60
    /\ energy_saving_action(devices) = devices

(***************************************************************************)
(* Properties of repeated apply, checked under ApplySpec                   *)
(***************************************************************************)

\* C25: for each reference rule, after apply has fired once, an immediate
\* second apply on the registry the action left returns false and changes no
\* device and not last_triggered whenever the rule's condition no longer holds.
\* (A step that advances the clock is a call; the hour may end in between.)
C25_SecondApplyAfterConditionLapsed ==
    [][ (/\ call.op = "apply" /\ call.ret
         /\ now' # now
         /\ call'.op = "apply" /\ call'.rule = call.rule /\ call'.was_enabled
         /\ ~Condition(rules[call.rule], devices, hour))
        => (/\ call'.ret = FALSE
            /\ devices' = devices
            /\ rules' = rules)
      ]_vars

\* a routine fired, its hour ended, and the next apply of the same rule on the
\* registry its action left returned false
C25_Witness ==
    /\ call.op = "apply"
    /\ call.was_enabled
    /\ ~call.ret
    /\ rules[call.rule].last_triggered = Some(now - 1)
    /\ call.before = devices
    /\ ~Condition(rules[call.rule], devices, hour)

(***************************************************************************)
(* Properties of the running application, checked under Spec               *)
(***************************************************************************)

\* C5: a full execute_rules pass is atomic with respect to the presentation
\* layer: between its start and its end no command and no main-thread callback
\* takes effect.
C5_PassIsAtomic ==
    [][ pass.active => (cmds' = cmds /\ timers' = timers) ]_vars

\* The position of the rule of the given name in the rule list
RuleAt(name) == CHOOSE k \in 1..Len(rules) : rules[k].name = name

\* A whole execute_rules pass has run and no command fell inside it
CleanPassDone ==
    /\ pass.ran
    /\ ~pass.active
    /\ ~pass.dirty
    /\ Len(pass.log) = Len(rules)

\* C21: in every execute_rules pass in which Auto Lock and Energy Saving are
\* both enabled and with which no command interleaves, Auto Lock fires if and
\* only if Energy Saving fires.
C21_AutoLockIffEnergySaving ==
    (/\ CleanPassDone
     /\ pass.log[RuleAt("Auto Lock")].evaluated
     /\ pass.log[RuleAt("Energy Saving")].evaluated)
        => (pass.log[RuleAt("Auto Lock")].fired = pass.log[RuleAt("Energy Saving")].fired)

\* a pass no command cut into, in which Auto Lock and Energy Saving both fired
C21_Witness ==
    /\ CleanPassDone
    /\ pass.log[RuleAt("Auto Lock")].fired
    /\ pass.log[RuleAt("Energy Saving")].fired

\* The step is one of the simulation thread, not of the main thread
DriverMoves == cmds' = cmds /\ timers' = timers

\* C26: evaluating the condition of a reference rule changes no device
\* attribute, no rule field and no system field; within the rule layer devices
\* change only inside a rule's action.
C26_ConditionsArePure ==
    [][ DriverMoves =>
            /\ pc = "apply" => UNCHANGED <<devices, rules, enabled, last_execution>>
            /\ (pc \in {"exec", "rule", "apply", "action", "stamp"} /\ devices' # devices)
                  => (pc = "action" /\ devices' = Action(rules[ri], devices))
      ]_vars

\* four conditions were evaluated false and the fifth true, and the registry is
\* still as constructed: the action is about to run
C26_Witness ==
    /\ pc = "action"
    /\ ri = 5
    /\ Len(pass.log) = 5
    /\ pass.log[5].fired
    /\ \A k \in 1..4 : pass.log[k].evaluated /\ ~pass.log[k].fired
    /\ devices = RefDevices

\* The thermostats of the registry, by position
Thermostats == {i \in 1..Len(devices) : IsThermostat(devices[i])}

\* C29: in every driver tick taken while the system is enabled, the whole
\* execute_rules pass completes before any thermostat's temperature is advanced,
\* and then each thermostat that is on is advanced exactly once, with the
\* targets the tick's rule actions wrote.
C29_PassThenDriftOncePerThermostat ==
    [][ /\ Len(pass'.visits) = Len(pass.visits) + 1 =>
              LET e == pass'.visits[Len(pass'.visits)]
              IN  /\ pass.entered
                  /\ ~pass.active
                  /\ pass.ran => Len(pass.log) = Len(rules)
                  /\ \A j \in 1..Len(pass.visits) : pass.visits[j].dev < e.dev
                  /\ e.called = devices[e.dev].status
                  /\ devices' = IF e.called
                                   THEN [devices EXCEPT ![e.dev] = update_current_temp(@)]
                                   ELSE devices
        /\ (DriverMoves /\ devices' # devices /\ pc \notin {"action"})
              => Len(pass'.visits) = Len(pass.visits) + 1
        /\ (pc = "thermo" /\ pc' = "sleep")
              => {pass.visits[j].dev : j \in 1..Len(pass.visits)} = Thermostats
      ]_vars

\* a tick no command touched in which Temperature Control wrote the target 22
\* and the thermostat, at 20 before, then moved once towards it
C29_Witness ==
    /\ pc = "sleep"
    /\ cmds = 0
    /\ CleanPassDone
    /\ pass.log[RuleAt("Temperature Control")].fired
    /\ pass.visits = << [dev |-> 1, called |-> TRUE] >>
    /\ devices[1].target_temp = Deg(TargetTemp)
    /\ devices[1].temperature = Deg(20) + HalfDeg

\* C30: a thermostat's current temperature changes only in a driver tick taken
\* while the system is enabled, for a thermostat that is on: ticks with the
\* system disabled, ticks for a thermostat that is off, rule actions and
\* presentation commands (set_temperature included) leave it unchanged.
C30_TemperatureChangesOnlyByDrift ==
    [][ \A i \in 1..Len(devices) :
            (IsThermostat(devices[i]) /\ devices'[i].temperature # devices[i].temperature)
                => /\ DriverMoves
                   /\ pc = "thermo"
                   /\ pass.entered
                   /\ devices[i].status
      ]_vars

\* a tick found the system disabled and went to sleep past a thermostat that
\* is on and half a degree or more from its target
C30_Witness ==
    /\ pc = "sleep"
    /\ ~pass.entered
    /\ ~enabled
    /\ \E i \in 1..Len(devices) :
          /\ IsThermostat(devices[i])
          /\ devices[i].status
          /\ devices[i].temperature # devices[i].target_temp

\* C32: in no execute_rules pass run by the driver thread, with the
\* presentation layer free to issue camera and device commands concurrently, do
\* Motion Lighting and Energy Saving both fire.
C32_NotBothMotionLightingAndEnergySaving ==
    \A j, k \in 1..Len(pass.log) :
        ~(/\ rules[pass.log[j].rule].name = "Motion Lighting" /\ pass.log[j].fired
          /\ rules[pass.log[k].rule].name = "Energy Saving" /\ pass.log[k].fired)

(***************************************************************************)
(* Properties of the simulation thread left to itself, checked under       *)
(* LoopFairSpec                                                            *)
(***************************************************************************)

\* Every thermostat that is on reads within 1 degree of the rule's target
NearTarget ==
    \A i \in 1..Len(devices) :
        (IsThermostat(devices[i]) /\ devices[i].status)
            => Abs(devices[i].temperature - Deg(TargetTemp)) <= Deg(1)

\* C31: with the automation system and the Temperature Control rule (target
\* 22) enabled, driver ticks taken again and again and no further presentation
\* command, the current temperature of every thermostat that is on eventually
\* comes within 1 degree of 22 and stays within 1 degree of 22 for ever.
C31_SettlesNearTarget ==
    (enabled /\ rules[RuleAt("Temperature Control")].enabled) => <>[]NearTarget

\* Temperature Control has fired, has not fired in the pass just run, and the
\* living room thermostat, on, has reached 22 and rests there
C31_Witness ==
    /\ pc = "sleep"
    /\ CleanPassDone
    /\ enabled
    /\ rules[RuleAt("Temperature Control")].enabled
    /\ rules[RuleAt("Temperature Control")].last_triggered # None
    /\ ~pass.log[RuleAt("Temperature Control")].fired
    /\ devices[1].status
    /\ devices[1].temperature = Deg(TargetTemp)
    /\ devices[1].target_temp = Deg(TargetTemp)
    /\ NearTarget

====
